---- MODULE Spec2Model ----
(***************************************************************************)
(* Model of the stock-predictor ML service: the /predict handler of        *)
(* app/main.py, the pipeline run_prediction of app/predict.py and the      *)
(* functions it calls in app/data/fetcher.py, app/features/engineering.py, *)
(* app/models/prophet_model.py, app/models/lstm_model.py and               *)
(* app/models/monte_carlo.py.                                              *)
(*                                                                         *)
(* Numbers.  Prices, forecasts and residuals are fixed-point integers in   *)
(* mills (1/1000 of a currency unit); blended prices are kept exactly in   *)
(* 1/100000 of a unit (a weight in hundredths times a residual in mills).  *)
(* round(x, 2) is modelled as round-half-even to cents.  A float that may  *)
(* be NaN is a record [nan, v].                                            *)
(***************************************************************************)
EXTENDS Integers, Sequences, FiniteSets, TLC

\* ------------------------------------------------------------------ bounds
NSim == 3            \* simulated paths (n_simulations, 1000 in the code)
McDayStride == 252   \* trading days folded into one simulated step
RngMod == 8          \* size of the random generator's state space

\* -------------------------------------------------------- program constants
MAX_RETRIES == 3
SEQUENCE_LENGTH == 60
MinExtraSequences == 10
LargestWindow == 200
McSeed == 42
McThreshold == 756
DefaultDays == 252
DefaultWeight == 30
BaseConfidence == 850
MinConfidence == 100
MaxHorizonDays == 2520
TimeseriesCap == 500

Runs == {"p1", "p2"}                 \* prediction ids of the tasks in flight

HORIZON_DAYS ==
  [h \in {"1mo", "6mo", "1yr", "2yr", "3yr", "4yr", "5yr"} |->
     CASE h = "1mo" -> 21   [] h = "6mo" -> 126  [] h = "1yr" -> 252
       [] h = "2yr" -> 504  [] h = "3yr" -> 756  [] h = "4yr" -> 1008
       [] h = "5yr" -> 1260]

\* (mutant) a schedule whose weight stops falling after two years
LSTM_WEIGHTS_Flat ==
  [h \in {"1mo", "6mo", "1yr", "2yr", "3yr", "4yr", "5yr"} |->
     CASE h = "1mo" -> 60   [] h = "6mo" -> 50   [] h = "1yr" -> 40
       [] h = "2yr" -> 30   [] h = "3yr" -> 30   [] h = "4yr" -> 30
       [] h = "5yr" -> 30]

\* weights in hundredths
LSTM_WEIGHTS ==
  [h \in {"1mo", "6mo", "1yr", "2yr", "3yr", "4yr", "5yr"} |->
     CASE h = "1mo" -> 60   [] h = "6mo" -> 50   [] h = "1yr" -> 40
       [] h = "2yr" -> 30   [] h = "3yr" -> 20   [] h = "4yr" -> 15
       [] h = "5yr" -> 10]

\* HORIZON_DAYS.get(h, 252)
DaysOf(h) == IF h \in DOMAIN HORIZON_DAYS THEN HORIZON_DAYS[h] ELSE DefaultDays

\* LSTM_WEIGHTS.get(h, 0.3)
WeightOf(h) == IF h \in DOMAIN LSTM_WEIGHTS THEN LSTM_WEIGHTS[h] ELSE DefaultWeight

\* ------------------------------------------------------------ arithmetic
\* num/den rounded to the nearest integer, ties to even (Python's round)
RoundHalfEven(num, den) ==
  LET q == num \div den
      r == num % den
  IN  IF 2 * r < den THEN q
      ELSE IF 2 * r > den THEN q + 1
      ELSE IF q % 2 = 0 THEN q ELSE q + 1

Max2(a, b) == IF a >= b THEN a ELSE b

\* a float that may be NaN
Fin(x) == [nan |-> FALSE, v |-> x]
NaN == [nan |-> TRUE, v |-> 0]

\* ------------------------------------------- numpy's global random generator
\* np.random.seed(x): the generator's state is a function of the seed alone
SeedState(x) == x % RngMod

NextRng(s) == (5 * s + 3) % RngMod

RECURSIVE RngAfter(_, _)
RngAfter(s, k) == IF k = 0 THEN s ELSE RngAfter(NextRng(s), k - 1)

\* the k-th standard-normal shock drawn from state s, discretised to -1, 0, 1
Shock(s, k) == (RngAfter(s, k) % 3) - 1

\* ------------------------------------------------------------ monte_carlo.py
\* One simulated step stands for McDayStride daily steps (one shock each).
McSteps(days) == days \div McDayStride

DrawCount(days) == NSim * McSteps(days)

\* exp((mu - 0.5 sigma^2) dt + sigma sqrt(dt) z) to first order, in per-mille;
\* mu and sigma are per-mille per step
DailyReturn(mu, sigma, z) == 1000 + mu - ((sigma * sigma) \div 2000) + sigma * z

\* paths[i, t] for path i (1..NSim) after t steps, shocks drawn from state s
RECURSIVE PathPrice(_, _, _, _, _, _, _)
PathPrice(last_price, mu, sigma, s, path, steps, t) ==
  IF t = 0 THEN last_price
  ELSE (PathPrice(last_price, mu, sigma, s, path, steps, t - 1)
          * DailyReturn(mu, sigma, Shock(s, (path - 1) * steps + t))) \div 1000

RECURSIVE Insert(_, _)
Insert(x, sq) ==
  IF sq = <<>> THEN <<x>>
  ELSE IF x <= Head(sq) THEN <<x>> \o sq
  ELSE <<Head(sq)>> \o Insert(x, Tail(sq))

RECURSIVE SortAsc(_)
SortAsc(sq) == IF sq = <<>> THEN <<>> ELSE Insert(Head(sq), SortAsc(Tail(sq)))

RECURSIVE SumSeq(_)
SumSeq(sq) == IF sq = <<>> THEN 0 ELSE Head(sq) + SumSeq(Tail(sq))

\* np.percentile (linear interpolation) of a sorted sequence of mills,
\* in 1/100000 of a unit
Percentile(sorted, q) ==
  LET pos == q * (Len(sorted) - 1)
      lo == pos \div 100
      fr == pos % 100
  IN  IF fr = 0 THEN 100 * sorted[lo + 1]
      ELSE 100 * sorted[lo + 1] + fr * (sorted[lo + 2] - sorted[lo + 1])

\* floor of the square root
RECURSIVE ISqrtIn(_, _, _)
ISqrtIn(n, lo, hi) ==
  IF lo >= hi THEN lo
  ELSE LET mid == (lo + hi + 1) \div 2
       IN  IF mid * mid <= n THEN ISqrtIn(n, mid, hi) ELSE ISqrtIn(n, lo, mid - 1)

ISqrt(n) == ISqrtIn(n, 0, 40000)

\* monte_carlo_simulation from the generator state s its draw starts in:
\* the returned dict (each value a float that may be NaN)
McResult(s, last_price, mu, sigma, days) ==
  IF mu.nan \/ sigma.nan
  THEN [p10 |-> NaN, p25 |-> NaN, p50 |-> NaN, p75 |-> NaN, p90 |-> NaN,
        mean |-> NaN, std |-> NaN]
  ELSE LET steps == McSteps(days)
           final_prices == [p \in 1..NSim |->
                              PathPrice(last_price, mu.v, sigma.v, s, p, steps, steps)]
           sorted == SortAsc(final_prices)
           mean == SumSeq(final_prices) \div NSim
           \* squared deviations in cents, to stay within the integers
           devs == [p \in 1..NSim |->
                      ((final_prices[p] - mean) \div 10) * ((final_prices[p] - mean) \div 10)]
       IN  [p10 |-> Fin(Percentile(sorted, 10)),
            p25 |-> Fin(Percentile(sorted, 25)),
            p50 |-> Fin(Percentile(sorted, 50)),
            p75 |-> Fin(Percentile(sorted, 75)),
            p90 |-> Fin(Percentile(sorted, 90)),
            mean |-> Fin(100 * mean),
            std |-> Fin(1000 * ISqrt(SumSeq(devs) \div NSim))]

\* round(x, 2) of a float in 1/100000 of a unit: cents, NaN stays NaN
Round2(x) == IF x.nan THEN NaN ELSE Fin(RoundHalfEven(x.v, 1000))

\* ---------------------------------------------------------------- fetcher.py
Ohlcv == {"date", "open", "high", "low", "close", "volume"}

MarketIndices == {"sp500", "vix", "tnx"}

\* a DataFrame: its row count, its columns, its last close (mills) and the
\* annualised mean and deviation of its daily returns (per-mille)
NoFrame == [rows |-> 0, cols |-> {}, close |-> 0, mu |-> 0, sigma |-> 0]

\* What the market-data provider may return for the ticker: the number of daily
\* rows, the last close, and the annualised drift and volatility (per-mille) of
\* the closes that survive the warm-up drop.
PriceSeries ==
  { [rows |-> 0,   close |-> 0,      mu |-> 0,  sigma |-> 0],
    [rows |-> 199, close |-> 200000, mu |-> 80, sigma |-> 200],
    [rows |-> 201, close |-> 51370,  mu |-> 80, sigma |-> 200],
    [rows |-> 328, close |-> 200000, mu |-> 80, sigma |-> 200],
    [rows |-> 329, close |-> 200000, mu |-> 80, sigma |-> 200] }

\* _retry(fn): fn fails `fails` times in a row before it would succeed;
\* the call is attempted MAX_RETRIES times and the last failure is re-raised
RetryRaises(fails) == fails >= MAX_RETRIES

\* cache_stock_to_firestore's effect on the DataFrame it is handed:
\* df["year"] = ... is assigned on the caller's frame unless db is None
CachedFrame(db, df) ==
  IF db THEN [df EXCEPT !.cols = @ \cup {"year"}] ELSE df

\* the per-year price records written to the cache: the year column is dropped
CacheDoc(df) == [exists |-> TRUE, rows |-> df.rows, cols |-> df.cols \ {"year"},
                 close |-> df.close, mu |-> df.mu, sigma |-> df.sigma]

NoDoc == [exists |-> FALSE, rows |-> 0, cols |-> {}, close |-> 0, mu |-> 0, sigma |-> 0]

\* get_cached_ohlcv with a database: the cached frame when the document exists,
\* is fresh (under 20 hours old) and holds prices; None (NoFrame) otherwise
GetCachedOhlcv(doc, fresh) ==
  IF doc.exists /\ fresh /\ doc.rows > 0
  THEN [rows |-> doc.rows, cols |-> doc.cols, close |-> doc.close,
        mu |-> doc.mu, sigma |-> doc.sigma]
  ELSE NoFrame

\* ------------------------------------------------------------ engineering.py
IndicatorCols ==
  {"sma_5", "sma_20", "sma_50", "sma_200", "ema_5", "ema_20", "ema_50", "ema_200",
   "rsi_14", "macd", "macd_signal", "macd_diff", "bb_upper", "bb_lower", "bb_mid",
   "bb_width", "atr_14", "obv", "roc_10", "return_1d", "return_5d", "return_20d",
   "volatility_20d"}

\* add_market_features: one column per fetched index, plus the S&P500 return
MarketCols(market_data) ==
  market_data \cup (IF "sp500" \in market_data THEN {"sp500_return"} ELSE {})

\* rows left by dropna(): the 200-period windows leave the first 199 rows undefined
UsableRows(rows) ==
  IF rows >= LargestWindow THEN rows - (LargestWindow - 1) ELSE 0

\* prepare_features never raises: a short series gives an empty table
PrepareFeatures(df, market_data) ==
  [df EXCEPT !.rows = UsableRows(df.rows),
              !.cols = @ \cup IndicatorCols \cup MarketCols(market_data)]

\* ---------------------------------------------------------- prophet_model.py
\* Prophet.fit refuses a history of fewer than 2 rows
ProphetFitRaises(features_df) == features_df.rows < 2

\* The fitted trend: what the model adds to the last close of its history
\* after `days` business days (mills).
ProphetTrend(days) ==
  CASE days = 21   -> 1234
    [] days = 126  -> 4995
    [] days = 252  -> 10000
    [] days = 504  -> 19876
    [] days = 756  -> 28005
    [] days = 1008 -> -9550
    [] OTHER       -> 47771

\* prophet_forecast(model, periods).iloc[-1] for a model fitted on features_df:
\* the forecast at the last of `periods` business days (mills)
ProphetEnd(features_df, days) ==
  [yhat |-> features_df.close + ProphetTrend(days),
   yhat_lower |-> features_df.close + ProphetTrend(days) - (5000 + 13 * days),
   yhat_upper |-> features_df.close + ProphetTrend(days) + (5003 + 17 * days)]

\* ------------------------------------------------------------- lstm_model.py
NoModel == [trained |-> FALSE, residual |-> 0]

\* train_lstm's inputs: every column of the feature table but the date and
\* the five price columns
FeatureCols(features_df) == features_df.cols \ Ohlcv

\* the residual (mills) a trained model may predict for the latest window
Residuals == {5000}

\* len(X) in prepare_lstm_data: range(seq_length, len(scaled_features))
SequenceCount(rows) == IF rows > SEQUENCE_LENGTH THEN rows - SEQUENCE_LENGTH ELSE 0

\* (mutant) the window length left out of the threshold
EnoughSequencesNoWindow(nseq) == nseq >= MinExtraSequences

\* train_lstm trains only with at least SEQUENCE_LENGTH + 10 sequences
EnoughSequences(nseq) == nseq >= SEQUENCE_LENGTH + MinExtraSequences

\* train_lstm's returned model for a residual the trained network would predict
TrainLstm(rows, residual) ==
  IF EnoughSequences(SequenceCount(rows))
  THEN [trained |-> TRUE, residual |-> residual]
  ELSE NoModel

\* ----------------------------------------------------------------- predict.py
\* returns = close.pct_change().dropna(): one return fewer than rows;
\* the mean of no value and the sample deviation of fewer than two are NaN
AnnualReturn(features_df) ==
  IF features_df.rows < 2 THEN NaN ELSE Fin(features_df.mu)

AnnualVol(features_df) ==
  IF features_df.rows < 3 THEN NaN ELSE Fin(features_df.sigma)

\* the residual correction of one horizon (mills)
LstmResidual(lstm_model, aligned_rows) ==
  IF lstm_model.trained /\ aligned_rows >= SEQUENCE_LENGTH
  THEN lstm_model.residual
  ELSE 0

\* (mutant) the residual added in full, whatever the horizon's weight
EnsembleUnweighted(prophet_value, lstm_weight, lstm_residual) ==
  100 * prophet_value + 100 * lstm_residual

\* prophet value + lstm_weight * lstm_residual, in 1/100000 of a unit
Ensemble(prophet_value, lstm_weight, lstm_residual) ==
  100 * prophet_value + lstm_weight * lstm_residual

\* round(((predicted_price - last_price) / last_price) * 100, 2), in 1/100 percent
ChangePercent(predicted_price, last_price) ==
  RoundHalfEven((predicted_price - 100 * last_price) * 100, last_price)

\* round(max(0.1, 0.85 * (1 - days / 2520)), 3), in thousandths
Confidence(days) ==
  IF BaseConfidence * (MaxHorizonDays - days) <= MinConfidence * MaxHorizonDays
  THEN MinConfidence
  ELSE RoundHalfEven(BaseConfidence * (MaxHorizonDays - days), MaxHorizonDays)

\* predicted_price, lower_bound and upper_bound of one horizon
Blend(h, prophet_end, lstm_residual) ==
  [predicted_price |-> Ensemble(prophet_end.yhat, WeightOf(h), lstm_residual),
   lower_bound |-> Ensemble(prophet_end.yhat_lower, WeightOf(h), lstm_residual),
   upper_bound |-> Ensemble(prophet_end.yhat_upper, WeightOf(h), lstm_residual)]

NoBlend == [predicted_price |-> 0, lower_bound |-> 0, upper_bound |-> 0]

\* the result dict of one horizon before the Monte Carlo block (cents)
HorizonResult(h, blend, last_price) ==
  [horizon |-> h,
   predictedPrice |-> RoundHalfEven(blend.predicted_price, 1000),
   lowerBound |-> RoundHalfEven(blend.lower_bound, 1000),
   upperBound |-> RoundHalfEven(blend.upper_bound, 1000),
   changePercent |-> ChangePercent(blend.predicted_price, last_price),
   confidence |-> Confidence(DaysOf(h))]

\* (mutant) the three-year horizon itself left out
NeedsMonteCarloStrict(days) == days > McThreshold

\* if days >= 756
NeedsMonteCarlo(days) == days >= McThreshold

\* result["monteCarlo"]
MonteCarloBundle(mc) ==
  [p10 |-> Round2(mc.p10), p25 |-> Round2(mc.p25), p50 |-> Round2(mc.p50),
   p75 |-> Round2(mc.p75), p90 |-> Round2(mc.p90)]

RECURSIVE MaxDays(_)
MaxDays(hs) ==
  IF Len(hs) = 1 THEN DaysOf(hs[1]) ELSE Max2(DaysOf(Head(hs)), MaxDays(Tail(hs)))

\* A forecast table or list is a run of consecutive business days, each day
\* named by its offset from last_date (the last date of the training rows):
\* the record holds the offsets of its first and last rows.
NoSeries == [first |-> 1, last |-> 0]

\* len() of such a run
Points(series) ==
  IF series.last < series.first THEN 0 ELSE series.last - series.first + 1

\* prophet_forecast: make_future_dataframe keeps the training dates and
\* appends `periods` business days after the last of them
ProphetForecast(features_df, periods) ==
  [first |-> 1 - features_df.rows, last |-> periods]

\* (mutant) the rows on or after last_date
FutureOnlyInclusive(full_forecast) ==
  [full_forecast EXCEPT !.first = Max2(full_forecast.first, 0)]

\* full_forecast[full_forecast["ds"] > last_date]
FutureOnly(full_forecast) ==
  [full_forecast EXCEPT !.first = Max2(full_forecast.first, 1)]

\* Firestore's update(): the fields given replace or extend the document's
Merge(doc, upd) ==
  [k \in DOMAIN doc \cup DOMAIN upd |-> IF k \in DOMAIN upd THEN upd[k] ELSE doc[k]]

\* ------------------------------------------------------------------- state
VARIABLES
  fetcherDb,     \* fetcher.py's module-level db: TRUE when a Firestore client exists
  predictDb,     \* predict.py's module-level db
  rng,           \* the state of numpy's global random generator
  predictions,   \* Firestore collection "predictions": prediction id -> document
  stocks,        \* Firestore document "stocks/<ticker>" with its daily prices
  run            \* prediction id -> the frame of its run_prediction task

vars == <<fetcherDb, predictDb, rng, predictions, stocks, run>>

\* the horizon lists a request may carry
Requests ==
  { <<"1mo", "5yr">>, <<"1yr", "3yr">>, <<"6mo", "4yr">>, <<"2yr", "10yr">>, <<>> }

\* numpy seeds its global generator from the system's entropy at import: the
\* state is unknown to the program (two representatives of it)
BootRngStates == {0, RngMod - 1}

IdleRun ==
  [pc |-> "idle", horizons |-> <<>>, df |-> NoFrame, market_data |-> {},
   features_df |-> NoFrame, lstm_model |-> NoModel, i |-> 1,
   blend |-> NoBlend, result |-> [horizon |-> ""],
   horizon_results |-> <<>>, forecast_timeseries |-> NoSeries, exc |-> "",
   \* history: the baseline and residual of each horizon, the Monte Carlo calls
   \* made, the fetches that failed after their retries, the stage that raised,
   \* the branch the task returned through
   prophet_ends |-> <<>>, mc_calls |-> <<>>, fetch_exhausted |-> {},
   failed_at |-> "", returned |-> ""]

Init ==
  /\ \E credentials \in BOOLEAN : fetcherDb = credentials /\ predictDb = credentials
  /\ rng \in BootRngStates
  /\ predictions = [id \in Runs |-> [status |-> "pending"]]
  /\ stocks = NoDoc
  /\ run = [r \in Runs |-> IdleRun]

\* an exception raised in `stage` reaches run_prediction's except clause
Raise(frame, stage, message) ==
  [frame EXCEPT !.pc = "except", !.exc = message, !.failed_at = stage]

\* run_prediction returns: its locals are gone; the history stays
Return(frame, branch) ==
  [IdleRun EXCEPT !.pc = "done", !.returned = branch,
                  !.horizons = frame.horizons,
                  !.fetch_exhausted = frame.fetch_exhausted,
                  !.failed_at = frame.failed_at]

\* the position after horizon i: the next horizon, or the timeseries
AfterHorizon(frame, i) ==
  IF i <= Len(frame.horizons) THEN "loop" ELSE "timeseries"

\* main.py: POST /predict queues run_prediction as a background task
Predict(r) ==
  /\ run[r].pc = "idle"
  /\ \E hs \in Requests :
       run' = [run EXCEPT ![r] = [@ EXCEPT !.pc = "start", !.horizons = hs]]
  /\ UNCHANGED <<fetcherDb, predictDb, rng, predictions, stocks>>

\* run_prediction: pred_ref.update({"status": "running"})
UpdateRunning(r) ==
  /\ run[r].pc = "start"
  /\ IF predictDb
     THEN \E ok \in BOOLEAN :
            IF ok
            THEN /\ predictions' = [predictions EXCEPT
                                      ![r] = Merge(@, [status |-> "running"])]
                 /\ run' = [run EXCEPT ![r].pc = "get_data"]
            ELSE /\ run' = [run EXCEPT
                              ![r] = Raise(@, "update_running", "firestore update failed")]
                 /\ UNCHANGED predictions
     ELSE /\ run' = [run EXCEPT ![r].pc = "get_data"]
          /\ UNCHANGED predictions
  /\ UNCHANGED <<fetcherDb, predictDb, rng, stocks>>

\* get_stock_data: the cache, else fetch_ohlcv, fetch_company_info and
\* cache_stock_to_firestore
GetStockData(r) ==
  /\ run[r].pc = "get_data"
  /\ IF ~fetcherDb
     THEN \* get_cached_ohlcv: db.collection on None
          /\ run' = [run EXCEPT ![r] = Raise(@, "get_stock_data",
                       "'NoneType' object has no attribute 'collection'")]
          /\ UNCHANGED stocks
     ELSE \E fresh \in BOOLEAN :
            LET cached == GetCachedOhlcv(stocks, fresh) IN
            IF cached.rows > 0
            THEN /\ run' = [run EXCEPT ![r] = [@ EXCEPT !.pc = "market", !.df = cached]]
                 /\ UNCHANGED stocks
            ELSE \E series \in PriceSeries, fails \in 0..MAX_RETRIES,
                    info_fails \in 0..MAX_RETRIES :
                   LET fetched == [rows |-> series.rows, cols |-> Ohlcv,
                                   close |-> series.close, mu |-> series.mu,
                                   sigma |-> series.sigma]
                   IN
                   IF RetryRaises(fails)
                   THEN /\ run' = [run EXCEPT ![r] =
                                     [Raise(@, "get_stock_data", "history request failed")
                                        EXCEPT !.fetch_exhausted = @ \cup {"ticker"}]]
                        /\ UNCHANGED stocks
                   ELSE IF fetched.rows = 0
                   THEN /\ run' = [run EXCEPT ![r] =
                                     Raise(@, "get_stock_data", "No data returned for ticker")]
                        /\ UNCHANGED stocks
                   ELSE IF RetryRaises(info_fails)
                   THEN /\ run' = [run EXCEPT ![r] =
                                     Raise(@, "get_stock_data", "info request failed")]
                        /\ UNCHANGED stocks
                   ELSE /\ stocks' = CacheDoc(CachedFrame(fetcherDb, fetched))
                        /\ run' = [run EXCEPT ![r] =
                                     [@ EXCEPT !.pc = "market",
                                               !.df = CachedFrame(fetcherDb, fetched)]]
  /\ UNCHANGED <<fetcherDb, predictDb, rng, predictions>>

\* the sets of indices whose provider keeps failing during one fetch_market_data
Outages == { {}, {"vix"} }

\* fetch_market_data: an index whose fetch fails after its retries is logged
\* and left out of the result
FetchMarketData(r) ==
  /\ run[r].pc = "market"
  /\ \E down \in Outages, transient \in 0..(MAX_RETRIES - 1) :
       LET fails == [n \in MarketIndices |-> IF n \in down THEN MAX_RETRIES ELSE transient]
           got == {n \in MarketIndices : ~RetryRaises(fails[n])}
       IN
       run' = [run EXCEPT ![r] =
                 [@ EXCEPT !.pc = "features", !.market_data = got,
                           !.fetch_exhausted = @ \cup (MarketIndices \ got)]]
  /\ UNCHANGED <<fetcherDb, predictDb, rng, predictions, stocks>>

\* features_df = prepare_features(df, market_data)
Features(r) ==
  /\ run[r].pc = "features"
  /\ run' = [run EXCEPT ![r] =
               [@ EXCEPT !.pc = "prophet",
                         !.features_df = PrepareFeatures(run[r].df, run[r].market_data)]]
  /\ UNCHANGED <<fetcherDb, predictDb, rng, predictions, stocks>>

\* train_prophet and get_prophet_residuals
TrainProphet(r) ==
  /\ run[r].pc = "prophet"
  /\ run' = [run EXCEPT ![r] =
               IF ProphetFitRaises(@.features_df)
               THEN Raise(@, "train_prophet", "Dataframe has less than 2 non-NaN rows.")
               ELSE [@ EXCEPT !.pc = "lstm"]]
  /\ UNCHANGED <<fetcherDb, predictDb, rng, predictions, stocks>>

\* train_lstm on the aligned features and the residuals
TrainLstmStep(r) ==
  /\ run[r].pc = "lstm"
  /\ \E residual \in Residuals :
       run' = [run EXCEPT ![r] =
                 [@ EXCEPT !.pc = AfterHorizon(run[r], 1), !.i = 1,
                           !.lstm_model = TrainLstm(run[r].features_df.rows, residual)]]
  /\ UNCHANGED <<fetcherDb, predictDb, rng, predictions, stocks>>

\* one pass of `for h in horizons` up to the Monte Carlo block
HorizonForecast(r) ==
  /\ run[r].pc = "loop"
  /\ LET f == run[r]
         h == f.horizons[f.i]
         days == DaysOf(h)
         prophet_end == ProphetEnd(f.features_df, days)
         lstm_residual == LstmResidual(f.lstm_model, f.features_df.rows)
         blend == Blend(h, prophet_end, lstm_residual)
         result == HorizonResult(h, blend, f.features_df.close)
         base == prophet_end @@ [lstm_residual |-> lstm_residual]
     IN  run' = [run EXCEPT ![r] =
                   IF NeedsMonteCarlo(days)
                   THEN [@ EXCEPT !.pc = "mc_seed", !.blend = blend, !.result = result,
                                  !.prophet_ends = Append(@, base)]
                   ELSE [@ EXCEPT !.pc = AfterHorizon(f, f.i + 1), !.i = f.i + 1,
                                  !.blend = blend,
                                  !.horizon_results = Append(@, result),
                                  !.prophet_ends = Append(@, base)]]
  /\ UNCHANGED <<fetcherDb, predictDb, rng, predictions, stocks>>

\* monte_carlo_simulation: np.random.seed(42)
McSeedStep(r) ==
  /\ run[r].pc = "mc_seed"
  /\ rng' = SeedState(McSeed)
  /\ run' = [run EXCEPT ![r].pc = "mc_draw"]
  /\ UNCHANGED <<fetcherDb, predictDb, predictions, stocks>>

\* monte_carlo_simulation: np.random.standard_normal((n_simulations, days)) and
\* the paths and percentiles computed from it; the bundle joins the result
McDrawStep(r) ==
  /\ run[r].pc = "mc_draw"
  /\ LET f == run[r]
         days == DaysOf(f.horizons[f.i])
         args == [last_price |-> f.features_df.close,
                  annual_return |-> AnnualReturn(f.features_df),
                  annual_volatility |-> AnnualVol(f.features_df),
                  days |-> days]
         mc == McResult(rng, args.last_price, args.annual_return,
                        args.annual_volatility, days)
     IN  /\ rng' = RngAfter(rng, DrawCount(days))
         /\ run' = [run EXCEPT ![r] =
                      [@ EXCEPT !.pc = AfterHorizon(f, f.i + 1), !.i = f.i + 1,
                                !.result = [horizon |-> ""],
                                !.horizon_results =
                                   Append(@, f.result @@ [monteCarlo |-> MonteCarloBundle(mc)]),
                                !.mc_calls = Append(@, [args |-> args, out |-> mc])]]
  /\ UNCHANGED <<fetcherDb, predictDb, predictions, stocks>>

\* the forecast timeseries out to the longest horizon: max() of no horizon raises
BuildTimeseries(r) ==
  /\ run[r].pc = "timeseries"
  /\ run' = [run EXCEPT ![r] =
               IF @.horizons = <<>>
               THEN Raise(@, "timeseries", "max() arg is an empty sequence")
               ELSE [@ EXCEPT !.pc = "write",
                              !.forecast_timeseries =
                                 FutureOnly(ProphetForecast(run[r].features_df,
                                                            MaxDays(run[r].horizons)))]]
  /\ UNCHANGED <<fetcherDb, predictDb, rng, predictions, stocks>>

\* forecast_timeseries[:500]
Capped(n) == IF n > TimeseriesCap THEN TimeseriesCap ELSE n

\* the list the slice leaves: its first Capped(len) entries
Sliced(series) ==
  [series EXCEPT !.last = series.first + Capped(Points(series)) - 1]

\* the document fields of a completed run
CompletedUpdate(frame) ==
  [status |-> "completed", horizons |-> frame.horizon_results,
   forecastTimeseries |-> Sliced(frame.forecast_timeseries),
   completedAt |-> "utcnow"]

\* (mutant) the horizons computed before the failure written with it
FailedUpdatePartial(frame) ==
  [status |-> "failed", error |-> frame.exc, horizons |-> frame.horizon_results]

\* the document fields of a failed run
FailedUpdate(frame) == [status |-> "failed", error |-> frame.exc]

\* 6. write the results, or log them without a database
WriteCompleted(r) ==
  /\ run[r].pc = "write"
  /\ IF predictDb
     THEN \E ok \in BOOLEAN :
            IF ok
            THEN /\ predictions' = [predictions EXCEPT
                                      ![r] = Merge(@, CompletedUpdate(run[r]))]
                 /\ run' = [run EXCEPT ![r] = Return(@, "completed")]
            ELSE /\ run' = [run EXCEPT
                              ![r] = Raise(@, "write_completed", "firestore update failed")]
                 /\ UNCHANGED predictions
     ELSE /\ run' = [run EXCEPT ![r] = Return(@, "completed")]
          /\ UNCHANGED predictions
  /\ UNCHANGED <<fetcherDb, predictDb, rng, stocks>>

\* except Exception as e: log, then try to record the failure; an exception
\* of that write is swallowed
HandleFailure(r) ==
  /\ run[r].pc = "except"
  /\ run' = [run EXCEPT ![r] = Return(@, "failed")]
  /\ IF predictDb
     THEN \E ok \in BOOLEAN :
            IF ok
            THEN predictions' = [predictions EXCEPT
                                   ![r] = Merge(@, FailedUpdate(run[r]))]
            ELSE UNCHANGED predictions
     ELSE UNCHANGED predictions
  /\ UNCHANGED <<fetcherDb, predictDb, rng, stocks>>

Next ==
  \E r \in Runs :
    \/ Predict(r)
    \/ UpdateRunning(r)
    \/ GetStockData(r)
    \/ FetchMarketData(r)
    \/ Features(r)
    \/ TrainProphet(r)
    \/ TrainLstmStep(r)
    \/ HorizonForecast(r)
    \/ McSeedStep(r)
    \/ McDrawStep(r)
    \/ BuildTimeseries(r)
    \/ WriteCompleted(r)
    \/ HandleFailure(r)

Spec == Init /\ [][Next]_vars

\* ------------------------------------------------------------------ claims
Terminal == {"completed", "failed"}

\* the positions of run_prediction after train_lstm has returned
AfterLstm == {"loop", "mc_seed", "mc_draw", "timeseries", "write"}

HasBundle(result) == "monteCarlo" \in DOMAIN result

(* C1: a run_prediction task that has returned, in a process that holds a    *)
(* persistence handle, has left a terminal status (completed or failed) in   *)
(* its prediction document, whichever step raised.                           *)
C1_ReturnedRunHasTerminalStatus ==
  \A r \in Runs :
    (predictDb /\ run[r].pc = "done") => predictions[r].status \in Terminal

(* C2: whatever the other task does in between, every Monte Carlo result a  *)
(* run obtains is the one the same call returns when the run executes alone *)
(* (its draw starting in the freshly seeded generator state).               *)
C2_RunsAreIndependent ==
  \A r \in Runs :
    \A k \in 1..Len(run[r].mc_calls) :
      LET c == run[r].mc_calls[k] IN
      c.out = McResult(SeedState(McSeed), c.args.last_price, c.args.annual_return,
                       c.args.annual_volatility, c.args.days)

(* C3: any two invocations of monte_carlo_simulation with the same last     *)
(* price, drift, volatility and day count return the same dict.             *)
C3_MonteCarloDeterministic ==
  \A r1, r2 \in Runs :
    \A k1 \in 1..Len(run[r1].mc_calls), k2 \in 1..Len(run[r2].mc_calls) :
      run[r1].mc_calls[k1].args = run[r2].mc_calls[k2].args
        => run[r1].mc_calls[k1].out = run[r2].mc_calls[k2].out

\* the results of a list carry a bundle exactly for the horizons of 756 days
\* or more, in the order of the request
BundlesMatch(results, hs) ==
  \A k \in 1..Len(results) :
    /\ k <= Len(hs)
    /\ results[k].horizon = hs[k]
    /\ HasBundle(results[k]) <=> (DaysOf(hs[k]) >= 756)

(* C4: every horizon result, of a run in progress or persisted, carries a   *)
(* monteCarlo bundle if and only if its horizon has 756 trading days or     *)
(* more (unknown labels count 252); a completed run has one result per      *)
(* requested horizon in request order, so ["1mo","5yr"] gives exactly two   *)
(* results with the bundle on 5yr only.                                     *)
C4_MonteCarloIffLongHorizon ==
  \A r \in Runs :
    /\ BundlesMatch(run[r].horizon_results, run[r].horizons)
    /\ run[r].pc = "write" => Len(run[r].horizon_results) = Len(run[r].horizons)
    /\ "horizons" \in DOMAIN predictions[r] =>
         /\ BundlesMatch(predictions[r].horizons, run[r].horizons)
         /\ Len(predictions[r].horizons) = Len(run[r].horizons)
         /\ run[r].horizons = <<"1mo", "5yr">> =>
              /\ Len(predictions[r].horizons) = 2
              /\ ~HasBundle(predictions[r].horizons[1])
              /\ HasBundle(predictions[r].horizons[2])

C4_Witness ==
  \E r \in Runs :
    /\ run[r].horizons = <<"1mo", "5yr">>
    /\ predictions[r].status = "completed"
    /\ Len(predictions[r].horizons) = 2
    /\ HasBundle(predictions[r].horizons[2])

(* C5: when the feature rows minus the 60-step window are fewer than 70,    *)
(* train_lstm returns no model and does not raise, and every horizon result *)
(* of the run has predictedPrice, lowerBound and upperBound equal to the    *)
(* baseline point, lower and upper forecasts (rounded to cents as every     *)
(* result field is).                                                        *)
C5_NoModelMeansBaselineOnly ==
  \A r \in Runs :
    (run[r].pc \in AfterLstm /\ run[r].features_df.rows - 60 < 70) =>
      /\ ~run[r].lstm_model.trained
      /\ run[r].failed_at = ""
      /\ \A k \in 1..Len(run[r].horizon_results) :
           LET res == run[r].horizon_results[k]
               base == run[r].prophet_ends[k]
           IN  /\ res.predictedPrice = RoundHalfEven(100 * base.yhat, 1000)
               /\ res.lowerBound = RoundHalfEven(100 * base.yhat_lower, 1000)
               /\ res.upperBound = RoundHalfEven(100 * base.yhat_upper, 1000)

C5_Witness ==
  \E r \in Runs :
    /\ run[r].pc = "write"
    /\ run[r].features_df.rows - 60 = 69
    /\ Len(run[r].horizon_results) = 2

NoNaN(bundle) ==
  ~bundle.p10.nan /\ ~bundle.p25.nan /\ ~bundle.p50.nan /\ ~bundle.p75.nan
    /\ ~bundle.p90.nan

(* C6: no horizon result, of a run in progress or persisted, carries a      *)
(* monteCarlo bundle with a NaN percentile.                                 *)
C6_NoNaNPercentiles ==
  \A r \in Runs :
    /\ \A k \in 1..Len(run[r].horizon_results) :
         HasBundle(run[r].horizon_results[k])
           => NoNaN(run[r].horizon_results[k].monteCarlo)
    /\ "horizons" \in DOMAIN predictions[r] =>
         \A k \in 1..Len(predictions[r].horizons) :
           HasBundle(predictions[r].horizons[k])
             => NoNaN(predictions[r].horizons[k].monteCarlo)

C8_ExhaustedFetchFailsRun ==
  \A r \in Runs :
    run[r].fetch_exhausted # {} =>
      /\ run[r].returned # "completed"
      /\ predictions[r].status # "completed"

(* C9: prepare_features fails on a price series of fewer than 200 rows: the *)
(* run never goes on to the baseline model with such a series.              *)
C9_ShortSeriesFailsInFeatures ==
  \A r \in Runs :
    run[r].df.rows < 200 => run[r].pc \notin ({"prophet", "lstm"} \cup AfterLstm)

(* C10: for the horizon just forecast, predicted_price is the baseline      *)
(* point plus weight times residual, both bounds are shifted by the same    *)
(* amount (so upper minus lower is the baseline band width), the result's   *)
(* changePercent is (predicted - last close) / last close * 100 rounded to  *)
(* two places; last close 200, baseline 210, residual 5 and weight 0.4 give *)
(* predicted 212 and changePercent 6.                                       *)
C10_EnsembleBlend ==
  \A r \in Runs :
    \A k \in 1..Len(run[r].prophet_ends) :
      LET f == run[r]
          base == f.prophet_ends[k]
          h == f.horizons[k]
          w == IF h \in DOMAIN LSTM_WEIGHTS THEN LSTM_WEIGHTS[h] ELSE 30
          shift == w * base.lstm_residual
          last == f.features_df.close
      IN  /\ k = Len(f.prophet_ends) =>
               /\ f.blend.predicted_price = 100 * base.yhat + shift
               /\ f.blend.lower_bound = 100 * base.yhat_lower + shift
               /\ f.blend.upper_bound = 100 * base.yhat_upper + shift
               /\ f.blend.upper_bound - f.blend.lower_bound
                    = 100 * (base.yhat_upper - base.yhat_lower)
          /\ k <= Len(f.horizon_results) =>
               LET res == f.horizon_results[k] IN
               /\ res.predictedPrice = RoundHalfEven(100 * base.yhat + shift, 1000)
               /\ res.changePercent
                    = RoundHalfEven((100 * base.yhat + shift - 100 * last) * 100, last)
               /\ (last = 200000 /\ base.yhat = 210000 /\ base.lstm_residual = 5000
                     /\ w = 40)
                    => (res.predictedPrice = 21200 /\ res.changePercent = 600)

C10_Witness ==
  \E r \in Runs :
    /\ Len(run[r].horizon_results) >= 1
    /\ run[r].horizons[1] = "1yr"
    /\ run[r].features_df.close = 200000
    /\ run[r].prophet_ends[1].yhat = 210000
    /\ run[r].prophet_ends[1].lstm_residual = 5000
    /\ run[r].horizon_results[1].predictedPrice = 21200
    /\ run[r].horizon_results[1].changePercent = 600

(* C11 (as stated): the forecast timeseries of a completed prediction       *)
(* reaches the longest requested horizon, holds only dates after the last   *)
(* known date and has at most 500 points.                                   *)
C11_TimeseriesCoversLongestHorizon ==
  \A r \in Runs :
    "forecastTimeseries" \in DOMAIN predictions[r] =>
      LET ts == predictions[r].forecastTimeseries IN
      /\ ts.first >= 1
      /\ ts.last = MaxDays(run[r].horizons)
      /\ Points(ts) <= 500

(* C11: the list built by a run starts on the first business day after the  *)
(* last known date and runs, in date order, to the longest requested        *)
(* horizon; the timeseries a completed run persists is the first 500 points *)
(* of that list at most: it has min(longest horizon, 500) points, all after *)
(* the last known date, and reaches the longest requested horizon exactly   *)
(* when that horizon has 500 days or fewer.                                 *)
C11_TimeseriesIsCappedPrefix ==
  \A r \in Runs :
    /\ run[r].pc = "write" =>
         /\ run[r].forecast_timeseries.first = 1
         /\ run[r].forecast_timeseries.last = MaxDays(run[r].horizons)
    /\ "forecastTimeseries" \in DOMAIN predictions[r] =>
         LET ts == predictions[r].forecastTimeseries
             longest == MaxDays(run[r].horizons)
         IN  /\ ts.first = 1
             /\ Points(ts) = (IF longest <= 500 THEN longest ELSE 500)
             /\ (ts.last = longest) <=> (longest <= 500)

C11_Witness ==
  \E r \in Runs :
    /\ run[r].horizons = <<"1mo", "5yr">>
    /\ predictions[r].status = "completed"
    /\ Points(predictions[r].forecastTimeseries) = 500
    /\ predictions[r].forecastTimeseries.last < MaxDays(run[r].horizons)

(* C12: HORIZON_DAYS and LSTM_WEIGHTS have the same seven labels, and of    *)
(* any two labels the one with fewer trading days has the strictly larger   *)
(* weight; so of any two horizons of a request that are labels of the      *)
(* table, the shorter is blended with the larger weight (a label outside    *)
(* the table takes the defaults 252 and 0.3, which the claim leaves out).   *)
C12_WeightFallsWithHorizon ==
  /\ DOMAIN HORIZON_DAYS = DOMAIN LSTM_WEIGHTS
  /\ Cardinality(DOMAIN LSTM_WEIGHTS) = 7
  /\ \A a, b \in DOMAIN HORIZON_DAYS :
       HORIZON_DAYS[a] < HORIZON_DAYS[b] => LSTM_WEIGHTS[a] > LSTM_WEIGHTS[b]
  /\ \A r \in Runs :
       \A j, k \in 1..Len(run[r].horizons) :
         ( /\ {run[r].horizons[j], run[r].horizons[k]} \subseteq DOMAIN HORIZON_DAYS
           /\ DaysOf(run[r].horizons[j]) < DaysOf(run[r].horizons[k]) )
           => WeightOf(run[r].horizons[j]) > WeightOf(run[r].horizons[k])

\* a run with a trained residual model has blended 1yr and 3yr: the residual
\* moved the 1yr price further from its baseline than the 3yr price
C12_Witness ==
  \E r \in Runs :
    /\ run[r].horizons = <<"1yr", "3yr">>
    /\ run[r].lstm_model.trained
    /\ Len(run[r].horizon_results) = 2
    /\ run[r].horizon_results[1].predictedPrice
           - RoundHalfEven(100 * run[r].prophet_ends[1].yhat, 1000)
         > run[r].horizon_results[2].predictedPrice
           - RoundHalfEven(100 * run[r].prophet_ends[2].yhat, 1000)

(* C13: the price series get_stock_data hands to a run has the columns      *)
(* date, open, high, low, close, volume whether it came from the cache or   *)
(* was fetched and then cached, and the features trained on are the         *)
(* indicators and market columns only: two runs with the same market data   *)
(* train on the same feature columns.                                       *)
C13_SameColumnsHitOrMiss ==
  /\ \A r \in Runs :
       run[r].df.rows > 0 =>
         /\ run[r].df.cols = Ohlcv
         /\ run[r].features_df.rows > 0 =>
              FeatureCols(run[r].features_df)
                = IndicatorCols \cup MarketCols(run[r].market_data)
  /\ \A r1, r2 \in Runs :
       ( /\ run[r1].features_df.rows > 0
         /\ run[r2].features_df.rows > 0
         /\ run[r1].market_data = run[r2].market_data )
       => FeatureCols(run[r1].features_df) = FeatureCols(run[r2].features_df)

(* C14: in a process without a persistence handle (db is None in fetcher    *)
(* and in predict) no run fails for want of the handle: no task is ever in  *)
(* its except clause, or has failed in data retrieval, with the error of    *)
(* dereferencing the missing handle.                                        *)
C14_NoHandleNeverFailsRetrieval ==
  (~fetcherDb /\ ~predictDb) =>
    \A r \in Runs :
      /\ run[r].exc # "'NoneType' object has no attribute 'collection'"
      /\ run[r].failed_at = "get_stock_data" => run[r].fetch_exhausted # {}

====
